---- MODULE Spec2Model ----
(***************************************************************************)
(* Model of the Blender "Scene Exporter for NeRF with Viewport Rendering"  *)
(* operator (blender-exporter-colmap-viewport/__init__.py).                *)
(*                                                                         *)
(* The operator's execute() drives the generator export_dataset(), which   *)
(* enumerates the scene's cameras, creates the output directories, derives *)
(* the shared intrinsics, and then, camera by camera in name order,        *)
(* computes the converted pose, records a Camera and an Image, sets the    *)
(* shared render state, renders the viewport and appends a frame to the    *)
(* manifest; it finally hands the records to write_model and dumps         *)
(* transforms.json.                                                        *)
(*                                                                         *)
(* Numbers: rotations are the 24 axis-aligned rotations (Euler angles that *)
(* are multiples of 90 degrees), optionally scaled, so that every matrix   *)
(* has integer entries and the library conversions (Euler angles, matrix,  *)
(* quaternion) are computed exactly.  An angle is an integer number of     *)
(* quarter turns.  A quaternion component q is held as Sgn(q) * 4 * q^2,   *)
(* which is an integer for every rotation of this family.  A quotient of   *)
(* two numbers (Python's true division) is held as a reduced fraction.     *)
(***************************************************************************)
EXTENDS Integers, Sequences, FiniteSets

(***************************************************************************)
(* Bounds and input tables of the model.                                   *)
(***************************************************************************)
MaxCams == 3

\* name_full of camera object c (character codes); cameras are numbered in
\* creation order, which is not the name order.
CameraNames ==
  << <<66>>, <<65>>, <<65, 66>>, <<65, 65>>, <<67>>, <<66, 65>>, <<65, 67>>, <<64>> >>

Lenses == <<35, 50>>          \* cam.data.lens, mm
Sensor == <<36, 24>>          \* cam.data.sensor_width, sensor_height, mm
Resolution == <<1920, 1080>>  \* scene.render.resolution_x, resolution_y
Distortion == <<0, 0, 0, 0>>  \* k1, k2, p1, p2 operator properties (defaults)
AabbScale == <<16>>           \* aabb_scale operator property (default)

NumCfg == 4 * 4 * 4 * 2 * 2   \* Euler x, y, z quarter turns; scale; lens
NumShifts == 4 * 4 * 4        \* every camera takes every rotation

(***************************************************************************)
(* Arithmetic helpers.                                                     *)
(***************************************************************************)
Abs(a) == IF a < 0 THEN -a ELSE a
Sgn(a) == IF a < 0 THEN -1 ELSE IF a > 0 THEN 1 ELSE 0

RECURSIVE Gcd(_, _)
Gcd(a, b) == IF b = 0 THEN a ELSE Gcd(b, a % b)

\* Python's a / b on numbers, kept exact.
TrueDiv(a, b) == LET g == Gcd(Abs(a), Abs(b)) IN <<a \div g, b \div g>>

\* math.cos / math.sin of q quarter turns.
Cos(q) == CASE q % 4 = 0 -> 1 [] q % 4 = 1 -> 0 [] q % 4 = 2 -> -1 [] OTHER -> 0
Sin(q) == CASE q % 4 = 0 -> 0 [] q % 4 = 1 -> 1 [] q % 4 = 2 -> 0 [] OTHER -> -1

\* atan2(y, x) in quarter turns; in this family one of x, y is zero.
Atan2(y, x) ==
  CASE y = 0 /\ x >= 0 -> 0
    [] y = 0 /\ x < 0 -> 2
    [] y > 0 -> 1
    [] OTHER -> -1

ISqrt(n) == CHOOSE r \in 0..n : r * r = n

(***************************************************************************)
(* mathutils: matrices are tuples of rows.                                 *)
(***************************************************************************)
Identity4 == << <<1, 0, 0, 0>>, <<0, 1, 0, 0>>, <<0, 0, 1, 0>>, <<0, 0, 0, 1>> >>

\* Matrix.__matmul__ (a @ b)
MatMul(a, b) ==
  [i \in 1..Len(a) |->
    [j \in 1..Len(b[1]) |->
      LET RECURSIVE Dot(_)
          Dot(k) == IF k = 0 THEN 0 ELSE a[i][k] * b[k][j] + Dot(k - 1)
      IN Dot(Len(b))]]

\* Euler((x, y, z), 'XYZ').to_matrix()
EulerToMatrix(e) ==
  LET ci == Cos(e[1])  si == Sin(e[1])
      cj == Cos(e[2])  sj == Sin(e[2])
      ch == Cos(e[3])  sh == Sin(e[3])
      cc == ci * ch    cs == ci * sh
      sc == si * ch    ss == si * sh
  IN << <<cj * ch, sj * sc - cs, sj * cc + ss>>,
        <<cj * sh, sj * ss + cc, sj * cs - sc>>,
        <<-sj,     cj * si,      cj * ci>> >>

\* Matrix.to_4x4() of a 3x3 matrix
To4x4(m) ==
  << <<m[1][1], m[1][2], m[1][3], 0>>,
     <<m[2][1], m[2][2], m[2][3], 0>>,
     <<m[3][1], m[3][2], m[3][3], 0>>,
     <<0, 0, 0, 1>> >>

\* upper-left 3x3 block of a 4x4 matrix
To3x3(m) == [i \in 1..3 |-> [j \in 1..3 |-> m[i][j]]]

\* Length of column j of a 3x3 block whose columns are scaled unit axes.
ColumnLength(m, j) == Abs(m[1][j]) + Abs(m[2][j]) + Abs(m[3][j])

\* normalize_m3: every column divided by its length
Normalized(m) == [i \in 1..3 |-> [j \in 1..3 |-> m[i][j] \div ColumnLength(m, j)]]

\* Matrix.to_euler('XYZ'): the rotation part is normalised, then the two
\* candidate angle triples are computed and the smaller one is returned.
ToEuler(m4) ==
  LET m == Normalized(To3x3(m4))
      cy == ISqrt(m[1][1] * m[1][1] + m[2][1] * m[2][1])
      eul1 == IF cy > 0
              THEN <<Atan2(m[3][2], m[3][3]), Atan2(-m[3][1], cy), Atan2(m[2][1], m[1][1])>>
              ELSE <<Atan2(-m[2][3], m[2][2]), Atan2(-m[3][1], cy), 0>>
      eul2 == IF cy > 0
              THEN <<Atan2(-m[3][2], -m[3][3]), Atan2(-m[3][1], -cy), Atan2(-m[2][1], -m[1][1])>>
              ELSE eul1
      size(e) == Abs(e[1]) + Abs(e[2]) + Abs(e[3])
  IN IF size(eul1) > size(eul2) THEN eul2 ELSE eul1

\* Matrix.to_translation()
ToTranslation(m4) == <<m4[1][4], m4[2][4], m4[3][4]>>

\* Matrix.to_quaternion() of a 3x3 rotation matrix (w, x, y, z), each
\* component q held as Sgn(q) * 4 * q^2.  Branch on the largest component.
ToQuaternion(m) ==
  LET comp(d, s, trace) == Sgn(d) * s * ((d * d) \div trace)
  IN IF m[3][3] < 0
     THEN IF m[1][1] > m[2][2]
          THEN LET trace == 1 + m[1][1] - m[2][2] - m[3][3]
                   s == IF m[3][2] < m[2][3] THEN -1 ELSE 1
               IN <<comp(m[3][2] - m[2][3], s, trace), s * trace,
                    comp(m[2][1] + m[1][2], s, trace), comp(m[1][3] + m[3][1], s, trace)>>
          ELSE LET trace == 1 - m[1][1] + m[2][2] - m[3][3]
                   s == IF m[1][3] < m[3][1] THEN -1 ELSE 1
               IN <<comp(m[1][3] - m[3][1], s, trace), comp(m[2][1] + m[1][2], s, trace),
                    s * trace, comp(m[3][2] + m[2][3], s, trace)>>
     ELSE IF m[1][1] < -m[2][2]
          THEN LET trace == 1 - m[1][1] - m[2][2] + m[3][3]
                   s == IF m[2][1] < m[1][2] THEN -1 ELSE 1
               IN <<comp(m[2][1] - m[1][2], s, trace), comp(m[1][3] + m[3][1], s, trace),
                    comp(m[3][2] + m[2][3], s, trace), s * trace>>
          ELSE LET trace == 1 + m[1][1] + m[2][2] + m[3][3]
               IN <<trace, comp(m[3][2] - m[2][3], 1, trace),
                    comp(m[1][3] - m[3][1], 1, trace), comp(m[2][1] - m[1][2], 1, trace)>>

\* get_coord_conversion_matrix(): Euler((-pi/2, 0, 0), 'XYZ').to_matrix().to_4x4()
get_coord_conversion_matrix == To4x4(EulerToMatrix(<<-1, 0, 0>>))

(***************************************************************************)
(* Python helpers used by export_dataset.                                  *)
(***************************************************************************)
DigitChars == <<"0", "1", "2", "3", "4", "5", "6", "7", "8", "9">>

RECURSIVE ToDecimal(_)
ToDecimal(n) == IF n < 10 THEN DigitChars[n + 1]
                ELSE ToDecimal(n \div 10) \o DigitChars[(n % 10) + 1]

RECURSIVE ZeroPad(_, _)
ZeroPad(s, width) == IF Len(s) < width THEN ZeroPad("0" \o s, width) ELSE s

\* f'frame_{idx:05d}.png'
Filename(idx) == "frame_" \o ZeroPad(ToDecimal(idx), 5) \o ".png"

\* variant: a 0-based image id
ImageId_ZeroBased(idx) == idx

\* image_id = idx + 1
ImageId(idx) == idx + 1

\* pathlib: directory / name
PathJoin(dir, name) == dir \o "/" \o name

\* f"./images/{filename}"
FramePath(filename) == "./images/" \o filename

\* str comparison a < b on character-code sequences
RECURSIVE StrLess(_, _)
StrLess(a, b) ==
  IF b = <<>> THEN FALSE
  ELSE IF a = <<>> THEN TRUE
  ELSE IF Head(a) # Head(b) THEN Head(a) < Head(b)
  ELSE StrLess(Tail(a), Tail(b))

\* x.name_full
name_full(c) == CameraNames[c]

\* sorted(seq, key=lambda x: x.name_full): stable insertion by key
RECURSIVE InsertByName(_, _)
InsertByName(c, s) ==
  IF s = <<>> THEN <<c>>
  ELSE IF StrLess(name_full(c), name_full(Head(s))) THEN <<c>> \o s
  ELSE <<Head(s)>> \o InsertByName(c, Tail(s))

\* variant: the cameras are taken in enumeration order
SortedByName_Unsorted(s) == s

\* variant: sorted(..., reverse=True)
RECURSIVE InsertByNameDesc(_, _)
InsertByNameDesc(c, s) ==
  IF s = <<>> THEN <<c>>
  ELSE IF StrLess(name_full(Head(s)), name_full(c)) THEN <<c>> \o s
  ELSE <<Head(s)>> \o InsertByNameDesc(c, Tail(s))

RECURSIVE SortedByName_Descending(_)
SortedByName_Descending(s) ==
  IF s = <<>> THEN <<>>
  ELSE InsertByNameDesc(s[Len(s)], SortedByName_Descending(SubSeq(s, 1, Len(s) - 1)))

RECURSIVE SortedByName(_)
SortedByName(s) ==
  IF s = <<>> THEN <<>>
  ELSE InsertByName(s[Len(s)], SortedByName(SubSeq(s, 1, Len(s) - 1)))

\* write_model(cameras, images, points3D, path, ext): the files it leaves
WriteModelFiles(path, ext) ==
  {PathJoin(path, "cameras" \o ext), PathJoin(path, "images" \o ext),
   PathJoin(path, "points3D" \o ext)}

(***************************************************************************)
(* Scenes.  A scene configuration number fixes a camera object's rotation  *)
(* (Euler angles in quarter turns), scale, location and lens.              *)
(***************************************************************************)
CfgEuler(cfg) == <<cfg % 4, (cfg \div 4) % 4, (cfg \div 16) % 4>>
CfgScale(cfg) == 1 + ((cfg \div 64) % 2)
CfgLens(cfg) == Lenses[1 + ((cfg \div 128) % 2)]
CfgLocation(cfg) == <<(cfg % 3) - 1, (cfg % 5) - 2, (cfg % 7) - 3>>

\* object.matrix_world = translation * rotation * scale
WorldMatrix(cfg) ==
  LET r == EulerToMatrix(CfgEuler(cfg))
      s == CfgScale(cfg)
      t == CfgLocation(cfg)
  IN << <<s * r[1][1], s * r[1][2], s * r[1][3], t[1]>>,
        <<s * r[2][1], s * r[2][2], s * r[2][3], t[2]>>,
        <<s * r[3][1], s * r[3][2], s * r[3][3], t[3]>>,
        <<0, 0, 0, 1>> >>

CfgOf(shift, c) == (shift + 37 * c) % NumCfg

\* the orders in which a scene may enumerate the objects of S
Orderings(S) ==
  {p \in [1..Cardinality(S) -> S] : \A i, j \in 1..Cardinality(S) : p[i] = p[j] => i = j}

(***************************************************************************)
(* State.                                                                  *)
(***************************************************************************)
VARIABLES
  scene_objects,     \* scene.objects in enumeration order; object 0 is a mesh
  matrix_world,      \* camera object -> its matrix_world
  lens,              \* camera object -> cam.data.lens
  viewport,          \* TRUE iff a window holds a VIEW_3D area, region and space
  scene_camera,      \* scene.camera (0: none)
  render_filepath,   \* scene.render.filepath
  view3d_camera,     \* view3d_space.camera (0: none)
  dirs,              \* directories that exist
  files,             \* files that exist
  transforms_json,   \* content of transforms.json on disk, <<>> if absent
  pc,                \* where execute / export_dataset stands
  scene_cameras,     \* export_dataset: the camera objects, as enumerated
  cameras,           \* export_dataset: id -> Camera
  images,            \* export_dataset: id -> Image
  intrinsics,        \* export_dataset: width, height, fx, fy, cx, cy, k1..p2
  transforms,        \* export_dataset: the manifest being built, <<>> before
  coord_conv,        \* export_dataset: the conversion matrix, <<>> before
  conv_calls,        \* calls of get_coord_conversion_matrix in this export
  sorted_cams,       \* the sequence the frame loop iterates
  idx,               \* the frame loop's index
  cur,               \* the frame loop's locals for the current frame
  render_calls,      \* calls of bpy.ops.render.opengl, with the render state seen
  write_model_calls, \* calls of write_model, with their arguments
  progress,          \* values yielded by export_dataset
  gen_return,        \* export_dataset's return value, "" while running
  exception,         \* exception propagating out of export_dataset, "" if none
  reports,           \* self.report calls of this execute
  result,            \* execute's return value, "" while running
  prev_export        \* the previous completed export: enumeration and manifest

vars == <<scene_objects, matrix_world, lens, viewport, scene_camera, render_filepath,
          view3d_camera, dirs, files, transforms_json, pc, scene_cameras, cameras,
          images, intrinsics, transforms, coord_conv, conv_calls, sorted_cams, idx,
          cur, render_calls, write_model_calls, progress, gen_return, exception,
          reports, result, prev_export>>

sceneVars == <<scene_objects, matrix_world, lens, viewport>>
renderVars == <<scene_camera, render_filepath, view3d_camera>>
diskVars == <<dirs, files, transforms_json>>
loopVars == <<scene_cameras, cameras, images, intrinsics, transforms, coord_conv,
              conv_calls, sorted_cams, idx, cur>>
callVars == <<render_calls, write_model_calls, progress>>
outcomeVars == <<gen_return, exception, reports, result>>

\* self.directory and the paths derived from it (lines 51, 70-72, 245)
directory == "out"
output_dir == directory
images_dir == PathJoin(output_dir, "images")
poses_dir == PathJoin(output_dir, "poses")
transforms_path == PathJoin(output_dir, "transforms.json")
format == ".json"

\* dict[k] = v
DictSet(d, k, v) == [x \in (DOMAIN d) \cup {k} |-> IF x = k THEN v ELSE d[x]]

\* [i for i in scene.objects if i.type == "CAMERA"]
IsCamera(o) == o # 0
RECURSIVE CamerasOf(_)
CamerasOf(objs) ==
  IF objs = <<>> THEN <<>>
  ELSE IF IsCamera(Head(objs)) THEN <<Head(objs)>> \o CamerasOf(Tail(objs))
  ELSE CamerasOf(Tail(objs))

\* the state of a fresh invocation of execute
Fresh ==
  /\ pc = "Idle"
  /\ scene_cameras = <<>>
  /\ cameras = <<>>
  /\ images = <<>>
  /\ intrinsics = <<>>
  /\ transforms = <<>>
  /\ coord_conv = <<>>
  /\ conv_calls = 0
  /\ sorted_cams = <<>>
  /\ idx = 0
  /\ cur = <<>>
  /\ render_calls = <<>>
  /\ write_model_calls = <<>>
  /\ progress = <<>>
  /\ gen_return = ""
  /\ exception = ""
  /\ reports = <<>>
  /\ result = ""

\* a scene of n cameras, numbered 1..n, in some enumeration order
Scene(n, shifts) ==
  /\ \E p \in Orderings(1..n) : scene_objects = <<0>> \o p
  /\ \E shift \in shifts :
       /\ matrix_world = [c \in 1..n |-> WorldMatrix(CfgOf(shift, c))]
       /\ lens = [c \in 1..n |-> CfgLens(CfgOf(shift, c))]
  /\ viewport \in BOOLEAN
  /\ scene_camera = 0
  /\ render_filepath = "/tmp/"
  /\ view3d_camera = 0
  /\ dirs = {}
  /\ files = {}
  /\ transforms_json = <<>>
  /\ prev_export = <<>>

Init ==
  /\ \E n \in 0..MaxCams : Scene(n, 0..(NumShifts - 1))
  /\ Fresh

(***************************************************************************)
(* Pieces of the frame loop's body.                                        *)
(***************************************************************************)
\* variant: the conversion multiplied on the right
ApplyConversion_Right(conv, cam_matrix) == MatMul(cam_matrix, conv)

\* transformed_matrix = coord_conv @ cam_matrix
ApplyConversion(conv, cam_matrix) == MatMul(conv, cam_matrix)

\* rotation_euler = transformed_matrix.to_euler('XYZ'); rotation_euler.to_matrix()
RotationMatrix(transformed_matrix) == EulerToMatrix(ToEuler(transformed_matrix))

\* variant: the quaternion stored scalar-last (x, y, z, w)
Qvec_ScalarLast(rotation_matrix) ==
  LET cam_rot == ToQuaternion(rotation_matrix)
  IN <<cam_rot[2], cam_rot[3], cam_rot[4], cam_rot[1]>>

\* cam_rot = rotation_matrix.to_quaternion(); np.array([qw, qx, qy, qz])
Qvec(rotation_matrix) ==
  LET cam_rot == ToQuaternion(rotation_matrix)
  IN <<cam_rot[1], cam_rot[2], cam_rot[3], cam_rot[4]>>

\* variant: one Camera record shared by all frames
CameraId_Shared(image_id) == 1

\* the key under which the frame's Camera is stored
CameraId(image_id) == image_id

\* Camera(id, model, width, height, params)
Camera(id, width, height, params) ==
  [id |-> id, model |-> "OPENCV", width |-> width, height |-> height, params |-> params]

\* Image(id, qvec, tvec, camera_id, name, xys, point3D_ids)
Image(id, qvec, tvec, camera_id, name) ==
  [id |-> id, qvec |-> qvec, tvec |-> tvec, camera_id |-> camera_id, name |-> name,
   xys |-> <<>>, point3D_ids |-> <<>>]

\* the frame object appended to transforms["frames"]
Frame(filename, rotation_matrix, T1) ==
  [file_path |-> FramePath(filename),
   transform_matrix |->
     << <<rotation_matrix[1][1], rotation_matrix[1][2], rotation_matrix[1][3], T1[1]>>,
        <<rotation_matrix[2][1], rotation_matrix[2][2], rotation_matrix[2][3], T1[2]>>,
        <<rotation_matrix[3][1], rotation_matrix[3][2], rotation_matrix[3][3], T1[3]>>,
        <<0, 0, 0, 1>> >>]

\* variant: the writes indented into the loop body
AfterYield_WriteInLoop(i, n) == "Finalizing"

\* where the generator goes after the yield that ends frame i (0-based) of n
AfterYield(i, n) == IF i + 1 < n THEN "PerFrame" ELSE "Finalizing"

(***************************************************************************)
(* execute and export_dataset, step by step.                               *)
(***************************************************************************)
\* execute enters export_dataset: the cameras are enumerated and the three
\* directories are created, before anything is checked.
Begin ==
  /\ pc = "Idle"
  /\ scene_cameras' = CamerasOf(scene_objects)
  /\ dirs' = dirs \cup {output_dir, images_dir, poses_dir}
  /\ cameras' = <<>>
  /\ images' = <<>>
  /\ pc' = "Validating"
  /\ UNCHANGED <<sceneVars, renderVars, files, transforms_json, intrinsics, transforms,
                 coord_conv, conv_calls, sorted_cams, idx, cur, callVars, outcomeVars,
                 prev_export>>

\* if not scene_cameras: report and return from the generator
ValidateEmpty ==
  /\ pc = "Validating"
  /\ scene_cameras = <<>>
  /\ reports' = Append(reports, <<"ERROR", "No cameras found in the scene.">>)
  /\ gen_return' = "CANCELLED"
  /\ pc' = "GenReturned"
  /\ UNCHANGED <<sceneVars, renderVars, diskVars, loopVars, callVars, exception, result,
                 prev_export>>

\* intrinsics from the first enumerated camera, the manifest's header, the
\* conversion matrix, and the sorted sequence the loop iterates
Setup ==
  /\ pc = "Validating"
  /\ scene_cameras # <<>>
  /\ LET cam == scene_cameras[1]
         width == Resolution[1]
         height == Resolution[2]
         focal_length == lens[cam]
         sensor_width == Sensor[1]
         sensor_height == Sensor[2]
         fx == TrueDiv(focal_length * width, sensor_width)
         fy == TrueDiv(focal_length * height, sensor_height)
         cx == TrueDiv(width, 2)
         cy == TrueDiv(height, 2)
     IN /\ intrinsics' = <<[width |-> width, height |-> height, fx |-> fx, fy |-> fy,
                            cx |-> cx, cy |-> cy, k1 |-> Distortion[1],
                            k2 |-> Distortion[2], p1 |-> Distortion[3],
                            p2 |-> Distortion[4]]>>
        /\ transforms' = <<[fl_x |-> fx, fl_y |-> fy, k1 |-> Distortion[1],
                            k2 |-> Distortion[2], p1 |-> Distortion[3],
                            p2 |-> Distortion[4], cx |-> cx, cy |-> cy, w |-> width,
                            h |-> height, aabb_scale |-> AabbScale[1], frames |-> <<>>]>>
  /\ coord_conv' = get_coord_conversion_matrix
  /\ conv_calls' = conv_calls + 1
  /\ sorted_cams' = SortedByName(scene_cameras)
  /\ idx' = 0
  /\ pc' = "PerFrame"
  /\ UNCHANGED <<sceneVars, renderVars, diskVars, scene_cameras, cameras, images, cur,
                 callVars, outcomeVars, prev_export>>

\* the loop body up to the viewport search: names, pose, Camera and Image
\* records, and the scene's camera and render path
FramePose ==
  /\ pc = "PerFrame"
  /\ LET cam == sorted_cams[idx + 1]
         filename == Filename(idx)
         file_path == PathJoin(images_dir, filename)
         image_id == ImageId(idx)
         cam_matrix == matrix_world[cam]
         transformed_matrix == ApplyConversion(coord_conv, cam_matrix)
         rotation_matrix == RotationMatrix(transformed_matrix)
         T1 == ToTranslation(transformed_matrix)
         in == intrinsics[1]
     IN /\ cameras' = DictSet(cameras, CameraId(image_id),
                        Camera(image_id, in.width, in.height,
                               <<in.fx, in.fy, in.cx, in.cy, in.k1, in.k2, in.p1, in.p2>>))
        /\ images' = DictSet(images, image_id,
                       Image(image_id, Qvec(rotation_matrix), <<T1[1], T1[2], T1[3]>>,
                             image_id, filename))
        /\ scene_camera' = cam
        /\ render_filepath' = file_path
        /\ cur' = <<[cam |-> cam, filename |-> filename, image_id |-> image_id,
                     transformed_matrix |-> transformed_matrix,
                     rotation_matrix |-> rotation_matrix, T1 |-> T1]>>
  /\ pc' = "FindViewport"
  /\ UNCHANGED <<sceneVars, view3d_camera, diskVars, scene_cameras, intrinsics,
                 transforms, coord_conv, conv_calls, sorted_cams, idx, callVars,
                 outcomeVars, prev_export>>

\* the window/area search found a VIEW_3D area with its region and space
ViewportFound ==
  /\ pc = "FindViewport"
  /\ viewport
  /\ pc' = "Render"
  /\ UNCHANGED <<sceneVars, renderVars, diskVars, loopVars, callVars, outcomeVars,
                 prev_export>>

\* no VIEW_3D area: report and return from the generator
ViewportMissing ==
  /\ pc = "FindViewport"
  /\ ~viewport
  /\ reports' = Append(reports, <<"ERROR", "No 3D Viewport area found">>)
  /\ gen_return' = "CANCELLED"
  /\ pc' = "GenReturned"
  /\ UNCHANGED <<sceneVars, renderVars, diskVars, loopVars, callVars, exception, result,
                 prev_export>>

\* the state bpy.ops.render.opengl sees when it is invoked
RenderCall ==
  [scene_camera |-> scene_camera, view_camera |-> cur[1].cam,
   filepath |-> render_filepath, frames_done |-> Len(transforms[1].frames)]

\* the viewport is pointed at the camera and rendered; the image is written
RenderOK ==
  /\ pc = "Render"
  /\ view3d_camera' = cur[1].cam
  /\ render_calls' = Append(render_calls, RenderCall)
  /\ files' = files \cup {render_filepath}
  /\ pc' = "Append"
  /\ UNCHANGED <<sceneVars, scene_camera, render_filepath, dirs, transforms_json,
                 loopVars, write_model_calls, progress, outcomeVars, prev_export>>

\* the render operator raises
RenderRaise ==
  /\ pc = "Render"
  /\ view3d_camera' = cur[1].cam
  /\ render_calls' = Append(render_calls, RenderCall)
  /\ exception' = "RuntimeError"
  /\ pc' = "Raised"
  /\ UNCHANGED <<sceneVars, scene_camera, render_filepath, diskVars, loopVars,
                 write_model_calls, progress, gen_return, reports, result, prev_export>>

\* the frame is appended to the manifest and the progress is yielded
AppendFrame ==
  /\ pc = "Append"
  /\ transforms' = <<[transforms[1] EXCEPT !.frames =
                        Append(@, Frame(cur[1].filename, cur[1].rotation_matrix,
                                        cur[1].T1))]>>
  /\ progress' = Append(progress, TrueDiv(100 * (idx + 1), Len(scene_cameras)))
  /\ idx' = idx + 1
  /\ pc' = AfterYield(idx, Len(sorted_cams))
  /\ UNCHANGED <<sceneVars, renderVars, diskVars, scene_cameras, cameras, images,
                 intrinsics, coord_conv, conv_calls, sorted_cams, cur, render_calls,
                 write_model_calls, outcomeVars, prev_export>>

\* write_model(cameras, images, {}, str(poses_dir), format)
WriteModel ==
  /\ pc = "Finalizing"
  /\ write_model_calls' = Append(write_model_calls,
                            [cameras |-> cameras, images |-> images, points3D |-> <<>>,
                             path |-> poses_dir, ext |-> format])
  /\ files' = files \cup WriteModelFiles(poses_dir, format)
  /\ pc' = "WriteTransforms"
  /\ UNCHANGED <<sceneVars, renderVars, dirs, transforms_json, loopVars, render_calls,
                 progress, outcomeVars, prev_export>>

\* json.dump(transforms, f); return {'FINISHED'}
WriteTransforms ==
  /\ pc = "WriteTransforms"
  /\ files' = files \cup {transforms_path}
  /\ transforms_json' = <<transforms[1]>>
  /\ gen_return' = "FINISHED"
  /\ pc' = "GenReturned"
  /\ UNCHANGED <<sceneVars, renderVars, dirs, loopVars, callVars, exception, reports,
                 result, prev_export>>

\* the for loop over the generator ended without an exception
ExecuteFinish ==
  /\ pc = "GenReturned"
  /\ reports' = Append(reports, <<"INFO", "Export completed successfully.">>)
  /\ result' = "FINISHED"
  /\ pc' = "Returned"
  /\ UNCHANGED <<sceneVars, renderVars, diskVars, loopVars, callVars, gen_return,
                 exception, prev_export>>

\* except Exception as e
ExecuteExcept ==
  /\ pc = "Raised"
  /\ reports' = Append(reports, <<"ERROR", "Export failed: " \o exception>>)
  /\ result' = "CANCELLED"
  /\ pc' = "Returned"
  /\ UNCHANGED <<sceneVars, renderVars, diskVars, loopVars, callVars, gen_return,
                 exception, prev_export>>

Next ==
  \/ Begin
  \/ ValidateEmpty
  \/ Setup
  \/ FramePose
  \/ ViewportFound
  \/ ViewportMissing
  \/ RenderOK
  \/ RenderRaise
  \/ AppendFrame
  \/ WriteModel
  \/ WriteTransforms
  \/ ExecuteFinish
  \/ ExecuteExcept

Spec == Init /\ [][Next]_vars

(***************************************************************************)
(* A second specification: the operator is invoked again on the same       *)
(* scene, which may enumerate its objects in another order.  The disk and  *)
(* the scene's render state persist; everything else starts afresh.        *)
(***************************************************************************)
Reexport ==
  /\ pc = "Returned"
  /\ \E p \in Orderings(DOMAIN matrix_world) : scene_objects' = <<0>> \o p
  /\ prev_export' = IF gen_return = "FINISHED"
                    THEN <<[objects |-> scene_objects, transforms |-> transforms_json[1],
                            images |-> images]>>
                    ELSE prev_export
  /\ pc' = "Idle"
  /\ scene_cameras' = <<>>
  /\ cameras' = <<>>
  /\ images' = <<>>
  /\ intrinsics' = <<>>
  /\ transforms' = <<>>
  /\ coord_conv' = <<>>
  /\ conv_calls' = 0
  /\ sorted_cams' = <<>>
  /\ idx' = 0
  /\ cur' = <<>>
  /\ render_calls' = <<>>
  /\ write_model_calls' = <<>>
  /\ progress' = <<>>
  /\ gen_return' = ""
  /\ exception' = ""
  /\ reports' = <<>>
  /\ result' = ""
  /\ UNCHANGED <<matrix_world, lens, viewport, renderVars, diskVars>>

\* one scene whose cameras share a lens and one whose cameras do not
RerunShifts == {0, 64}

InitRerun ==
  /\ \E n \in 0..MaxCams : Scene(n, RerunShifts)
  /\ Fresh

NextRerun ==
  \/ Begin
  \/ ValidateEmpty
  \/ Setup
  \/ FramePose
  \/ ViewportFound
  \/ ViewportMissing
  \/ RenderOK
  \/ RenderRaise
  \/ AppendFrame
  \/ WriteModel
  \/ WriteTransforms
  \/ ExecuteFinish
  \/ ExecuteExcept
  \/ Reexport

SpecRerun == InitRerun /\ [][NextRerun]_vars

(***************************************************************************)
(* Vocabulary of the properties.                                           *)
(***************************************************************************)
\* the camera objects of the scene
SceneCams == DOMAIN matrix_world

\* number of cameras of the scene whose name precedes c's
Rank(c) == Cardinality({d \in SceneCams : StrLess(name_full(d), name_full(c))})

\* the file name the specification gives to frame number i (0-based)
ExpectedNames ==
  <<"frame_00000.png", "frame_00001.png", "frame_00002.png", "frame_00003.png",
    "frame_00004.png", "frame_00005.png", "frame_00006.png", "frame_00007.png">>

\* -90 degrees about X, and 180 degrees about X
RotXMinus90 == << <<1, 0, 0, 0>>, <<0, 0, 1, 0>>, <<0, -1, 0, 0>>, <<0, 0, 0, 1>> >>
RotX180 == << <<1, 0, 0, 0>>, <<0, -1, 0, 0>>, <<0, 0, -1, 0>>, <<0, 0, 0, 1>> >>

\* the rotation matrix of a unit quaternion (w, x, y, z) whose components q
\* are held as Sgn(q) * 4 * q^2
QuatToMatrix(q) ==
  LET P(a, b) == Sgn(q[a]) * Sgn(q[b]) * ISqrt(Abs(q[a]) * Abs(q[b]))
      w == 1  x == 2  y == 3  z == 4
  IN << <<(2 - Abs(q[y]) - Abs(q[z])) \div 2, (P(x, y) - P(w, z)) \div 2,
          (P(x, z) + P(w, y)) \div 2>>,
        <<(P(x, y) + P(w, z)) \div 2, (2 - Abs(q[x]) - Abs(q[z])) \div 2,
          (P(y, z) - P(w, x)) \div 2>>,
        <<(P(x, z) - P(w, y)) \div 2, (P(y, z) + P(w, x)) \div 2,
          (2 - Abs(q[x]) - Abs(q[y])) \div 2>> >>

\* the frames appended to the manifest so far
Frames == IF transforms = <<>> THEN <<>> ELSE transforms[1].frames

\* outcomes of the export
EmptyScene == scene_cameras = <<>>
ViewportAbort == scene_cameras # <<>> /\ ~viewport
RenderFailed == exception # ""
ModelWritten == write_model_calls # <<>> \/ WriteModelFiles(poses_dir, format) \cap files # {}
ManifestWritten == transforms_json # <<>> \/ transforms_path \in files

(***************************************************************************)
(* C1.  Exporting a scene with no camera raises EmptySceneError to the     *)
(* caller and creates nothing: no directory and no file exists when the    *)
(* export has ended.                                                       *)
(***************************************************************************)
C1_EmptySceneRaisesAndCreatesNothing ==
  (pc = "Returned" /\ EmptyScene) =>
    /\ exception = "EmptySceneError"
    /\ dirs = {}
    /\ files = {}
    /\ transforms_json = <<>>

(***************************************************************************)
(* C2.  Every failed export (no camera, no 3D viewport, a render that      *)
(* raises) makes execute report an error and return CANCELLED without      *)
(* reporting success, and execute returns FINISHED only after write_model  *)
(* and the transforms.json write were both performed.                      *)
(***************************************************************************)
C2_FailuresAreSurfaced ==
  pc = "Returned" =>
    /\ (EmptyScene \/ ViewportAbort \/ RenderFailed) =>
         /\ result = "CANCELLED"
         /\ \E i \in 1..Len(reports) : reports[i][1] = "ERROR"
         /\ \A i \in 1..Len(reports) : reports[i][1] # "INFO"
    /\ result = "FINISHED" =>
         /\ write_model_calls # <<>>
         /\ transforms_path \in files

(***************************************************************************)
(* C3.  write_model and the transforms.json write happen only after the    *)
(* frame loop has rendered and appended every camera; a run that aborts    *)
(* (no camera, no viewport, render failure) performs neither.              *)
(***************************************************************************)
C3_WritesOnlyAfterFullLoop ==
  /\ (ModelWritten \/ ManifestWritten) =>
       /\ scene_cameras # <<>>
       /\ exception = ""
       /\ Len(Frames) = Cardinality(SceneCams)
       /\ \A i \in 1..Cardinality(SceneCams) :
            /\ PathJoin(images_dir, ExpectedNames[i]) \in files
            /\ \E c \in SceneCams : render_calls[i].scene_camera = c
       /\ \A i \in 1..Len(write_model_calls) :
            DOMAIN write_model_calls[i].images = 1..Cardinality(SceneCams)
       /\ transforms_json # <<>> => Len(transforms_json[1].frames) = Cardinality(SceneCams)
  /\ (pc \in {"GenReturned", "Raised", "Returned"}
        /\ (EmptyScene \/ ViewportAbort \/ RenderFailed)) =>
       ~ModelWritten /\ ~ManifestWritten

C3_Witness ==
  /\ pc = "Returned"
  /\ Cardinality(SceneCams) >= 2
  /\ ModelWritten
  /\ ManifestWritten

(***************************************************************************)
(* C4.  With no 3D viewport the export aborts with a                       *)
(* MissingRenderContextError before any I/O: no directory was created, no  *)
(* frame was rendered, no file was written, and no frame was processed.    *)
(***************************************************************************)
C4_ViewportAbortBeforeAnyIO ==
  (pc \in {"GenReturned", "Returned"} /\ ViewportAbort) =>
    /\ exception = "MissingRenderContextError"
    /\ dirs = {}
    /\ files = {}
    /\ render_calls = <<>>
    /\ cameras = <<>>
    /\ images = <<>>

(***************************************************************************)
(* C5.  The frame at 0-based position i of the name-sorted cameras has     *)
(* image id i + 1 and file name frame_{i:05d}.png, and both outputs use    *)
(* that pair: the Image under key i + 1 has id and camera_id i + 1 and     *)
(* that name, the render target is images/<name>, and entry i of the       *)
(* manifest's frames has file_path ./images/<name>.                        *)
(***************************************************************************)
C5_IdsAndFilenamesDerived ==
  /\ \E k \in 0..Cardinality(SceneCams) : DOMAIN images = 1..k
  /\ \A id \in DOMAIN images :
       /\ images[id].id = id
       /\ images[id].camera_id = id
       /\ images[id].name = ExpectedNames[id]
  /\ cur # <<>> =>
       /\ cur[1].image_id = Rank(cur[1].cam) + 1
       /\ cur[1].filename = ExpectedNames[Rank(cur[1].cam) + 1]
       /\ images[cur[1].image_id].name = cur[1].filename
       /\ render_filepath = "out/images/" \o cur[1].filename
  /\ \A i \in 1..Len(render_calls) :
       render_calls[i].filepath = "out/images/" \o ExpectedNames[i]
  /\ \A i \in 1..Len(Frames) :
       Frames[i].file_path = "./images/" \o images[i].name

C5_Witness ==
  /\ pc = "Finalizing"
  /\ Len(Frames) >= 3
  /\ images[3].name = "frame_00002.png"

(***************************************************************************)
(* C6.  Frames are rendered one at a time in ascending camera-name order:  *)
(* when the render of frame i is invoked, frames 0..i-1 have been rendered *)
(* and appended, and scene.camera, the viewport camera and the render file *)
(* path are those of frame i.                                              *)
(***************************************************************************)
C6_SequentialInNameOrder ==
  \A i \in 1..Len(render_calls) :
    LET call == render_calls[i] IN
    /\ Rank(call.scene_camera) = i - 1
    /\ call.view_camera = call.scene_camera
    /\ call.filepath = "out/images/" \o ExpectedNames[i]
    /\ call.frames_done = i - 1
    /\ \A j \in 1..(i - 1) :
         /\ render_calls[j].filepath \in files
         /\ StrLess(name_full(render_calls[j].scene_camera), name_full(call.scene_camera))

C6_Witness ==
  /\ Len(render_calls) >= 3
  /\ scene_cameras # sorted_cams

(***************************************************************************)
(* C7.  As claimed: two exports of the same unchanged scene produce        *)
(* identical manifests, whatever the order in which the scene enumerates   *)
(* its cameras.                                                            *)
(***************************************************************************)
SecondExportDone == pc = "Returned" /\ gen_return = "FINISHED" /\ prev_export # <<>>

\* the first camera of an enumeration of the scene's objects
FirstCamera(objects) == CamerasOf(objects)[1]

\* a manifest without its focal lengths
WithoutFocal(t) ==
  [k1 |-> t.k1, k2 |-> t.k2, p1 |-> t.p1, p2 |-> t.p2, cx |-> t.cx, cy |-> t.cy,
   w |-> t.w, h |-> t.h, aabb_scale |-> t.aabb_scale, frames |-> t.frames]

C7_ManifestIndependentOfEnumeration ==
  SecondExportDone => transforms_json[1] = prev_export[1].transforms

(***************************************************************************)
(* C7, amended.  Two exports of the same unchanged scene agree on the      *)
(* frame order, image ids, file names, poses and on cx, cy, w, h whatever  *)
(* the enumeration order; fl_x and fl_y come from the first enumerated     *)
(* camera, so the manifests are identical when the two enumerations start  *)
(* with cameras of the same lens.                                          *)
(***************************************************************************)
C7_ManifestUpToFirstCameraLens ==
  SecondExportDone =>
    /\ WithoutFocal(transforms_json[1]) = WithoutFocal(prev_export[1].transforms)
    /\ images = prev_export[1].images
    /\ lens[FirstCamera(scene_objects)] = lens[FirstCamera(prev_export[1].objects)] =>
         transforms_json[1] = prev_export[1].transforms

C7_Witness ==
  /\ SecondExportDone
  /\ Cardinality(SceneCams) >= 3
  /\ scene_objects # prev_export[1].objects
  /\ FirstCamera(scene_objects) # FirstCamera(prev_export[1].objects)
  /\ transforms_json[1] = prev_export[1].transforms

(***************************************************************************)
(* C8.  For every frame the two serialisations hold one pose, taken from   *)
(* coord_conv @ matrix_world: column 3 of rows 0..2 of transform_matrix is *)
(* the Image's tvec, the 3x3 block is the rotation of the Image's qvec,    *)
(* and the last row is [0, 0, 0, 1].                                       *)
(***************************************************************************)
C8_OnePoseInBothFormats ==
  \A k \in 1..Len(Frames) :
    LET tm == Frames[k].transform_matrix
        img == images[k]
        cam == CHOOSE c \in SceneCams : Rank(c) = k - 1
        converted == MatMul(RotXMinus90, matrix_world[cam])
    IN /\ \A i \in 1..3 : tm[i][4] = img.tvec[i] /\ tm[i][4] = converted[i][4]
       /\ QuatToMatrix(img.qvec) = To3x3(tm)
       /\ Abs(img.qvec[1]) + Abs(img.qvec[2]) + Abs(img.qvec[3]) + Abs(img.qvec[4]) = 4
       /\ \A i, j \in 1..3 :
            tm[i][j] * ColumnLength(To3x3(converted), j) = converted[i][j]
       /\ tm[4] = <<0, 0, 0, 1>>

C8_Witness ==
  /\ Len(Frames) >= 2
  /\ To3x3(Frames[2].transform_matrix) # To3x3(Identity4)
  /\ To3x3(Frames[2].transform_matrix) # To3x3(matrix_world[sorted_cams[2]])
  /\ images[2].qvec[1] = 2

(***************************************************************************)
(* C9.  The axis conversion is the fixed -90 degree rotation about X, rows *)
(* [1,0,0], [0,0,1], [0,-1,0], computed once per export and multiplied on  *)
(* the left of every frame's world matrix; applied twice to a pose it is   *)
(* the 180 degree rotation about X, never the identity.                    *)
(***************************************************************************)
C9_FixedConversionAppliedOnTheLeft ==
  /\ coord_conv \in {<<>>, RotXMinus90}
  /\ conv_calls = (IF coord_conv = <<>> THEN 0 ELSE 1)
  /\ (pc \in {"PerFrame", "FindViewport", "Render", "Append", "Finalizing"}) =>
       coord_conv = RotXMinus90
  /\ cur # <<>> =>
       LET world == matrix_world[cur[1].cam]
           twice == MatMul(coord_conv, cur[1].transformed_matrix)
       IN /\ cur[1].transformed_matrix = MatMul(RotXMinus90, world)
          /\ twice = MatMul(RotX180, world)
          /\ twice # world
          /\ MatMul(coord_conv, coord_conv) = RotX180
          /\ MatMul(coord_conv, coord_conv) # Identity4

C9_Witness ==
  /\ pc = "Append"
  /\ idx >= 1
  /\ cur[1].transformed_matrix # MatMul(matrix_world[cur[1].cam], RotXMinus90)

(***************************************************************************)
(* C10.  After k frames of the loop the cameras map, the images map, the   *)
(* manifest's frames and the render calls hold exactly k entries each;     *)
(* when an export of n >= 1 cameras reaches Finalizing the two maps have   *)
(* the keys 1..n, frames has n entries, every camera was rendered exactly  *)
(* once, and write_model is handed an empty points3D map.                  *)
(***************************************************************************)
C10_CollectionsOneToOne ==
  /\ (pc \in {"PerFrame", "Finalizing", "WriteTransforms"} \/ gen_return = "FINISHED") =>
       /\ DOMAIN cameras = 1..idx
       /\ DOMAIN images = 1..idx
       /\ Len(Frames) = idx
       /\ Len(render_calls) = idx
  /\ (pc \in {"Finalizing", "WriteTransforms"} \/ gen_return = "FINISHED") =>
       /\ idx = Cardinality(SceneCams)
       /\ idx >= 1
       /\ {render_calls[i].scene_camera : i \in 1..Len(render_calls)} = SceneCams
  /\ \A i \in 1..Len(write_model_calls) :
       /\ DOMAIN write_model_calls[i].points3D = {}
       /\ DOMAIN write_model_calls[i].cameras = 1..Cardinality(SceneCams)
       /\ DOMAIN write_model_calls[i].images = 1..Cardinality(SceneCams)

C10_Witness ==
  /\ pc = "WriteTransforms"
  /\ Cardinality(SceneCams) >= 3
  /\ Len(write_model_calls) = 1

====
